---- MODULE Spec2Model ----
(***************************************************************************)
(* Model of the URL shortener backend (be/index.js) over its Mongoose      *)
(* model (models/url.js).  The urls collection is the only shared state.   *)
(* A request handler is a chain of continuations separated by `await`;     *)
(* each store operation, together with the continuation that consumes its  *)
(* result, is one atomic action, and the handlers of different requests    *)
(* interleave freely.                                                      *)
(*                                                                         *)
(* A request whose handler goes on to a second store operation occupies a  *)
(* slot from its arrival on and keeps it once answered.  A request that is *)
(* answered in its first continuation changes nothing; what it is answered *)
(* is an operator of the collection (ShortenAnswer, RedirectAnswer,        *)
(* AnalyticsAnswer, AdminUrlsAnswer, AdminDeleteAnswer, AdminStatsAnswer). *)
(***************************************************************************)
EXTENDS Integers, Sequences, FiniteSets, TLC

\* Number of requests, in one behaviour, whose handler reaches a second
\* store operation.
MaxReqs == 3

Slots == 1..MaxReqs

\* Request bodies that pass validateUrl, and the values nanoid(7) may return.
Urls == {"https://a.example/page", "https://b.example/page"}
Codes == {"aaaaaaa", "bbbbbbb"}

\* Credentials a caller may present ("" is an absent credential) and the
\* values of process.env.ADMIN_KEY ("" is unset).
Keys == {"", "admin123", "s3cret"}
EnvKeys == {"", "s3cret"}

\* Query strings of GET /api/admin/urls: page and limit after parseInt (0 is
\* an absent or unparsable value).
ListQueries == {[page |-> 0, limit |-> 0], [page |-> 2, limit |-> 1]}

\* null: a missing document, an unset lastAccessed.
Null == 0
NoDoc == [id |-> Null]
NoResp == [status |-> 0]
\* The handler has sent no response in its first continuation.
Pending == [status |-> 0, touched |-> TRUE]

VARIABLES
  env,        \* process.env.ADMIN_KEY
  store,      \* the urls collection: _id -> document
  op,         \* per slot: the route of its request
  arg,        \* per slot: the request's parameter (body, :shortcode or :id)
  key,        \* per slot: the admin credential the request carries
  pc,         \* per slot: the store operation its handler awaits
  shortCode,  \* per shorten handler: the local variable shortCode
  doc,        \* per handler: the document it constructed or loaded
  resp        \* per slot: the response sent

vars == <<env, store, op, arg, key, pc, shortCode, doc, resp>>

\* ------------------------------------------------------------------ store

\* Date.now() and new Date(): a timestamp, never null.  Time is abstracted
\* to one instant.
Now == 1

\* Url.findOne(filter) returns the first matching document in natural
\* (insertion) order, or null.
First(S) == IF S = {} THEN Null ELSE CHOOSE i \in S : \A j \in S : i <= j

FindOneByUrl(s, u) == First({i \in DOMAIN s : s[i].originalUrl = u})

FindOneByCodeAny(s, c) == First(DOMAIN s)
FindOneByCode(s, c) == First({i \in DOMAIN s : s[i].shortCode = c})

FindById(s, id) == IF id \in DOMAIN s THEN id ELSE Null

\* The unique index on shortCode: an insert of a duplicate key is rejected.
NoUniqueIndex(s, c) == TRUE
UniqueIndexOk(s, c) == \A i \in DOMAIN s : s[i].shortCode # c

\* new Url({originalUrl, shortCode, createdBy}) with the schema defaults.
NewUrl(u, c, t) ==
  [originalUrl |-> u, shortCode |-> c, clicks |-> 0, date |-> t,
   lastAccessed |-> Null, isActive |-> TRUE]

\* url.clicks++; url.lastAccessed = new Date()
VisitNoStamp(d, t) == [d EXCEPT !.clicks = @ + 1]
Visit(d, t) == [d EXCEPT !.clicks = @ + 1, !.lastAccessed = t]

\* url.save() of a loaded document writes the modified paths only; it fails
\* when the document is no longer in the collection.
SaveVisit(s, d) ==
  [s EXCEPT ![d.id].clicks = d.clicks, ![d.id].lastAccessed = d.lastAccessed]

HardDelete(s, id) == [i \in DOMAIN s \ {id} |-> s[i]]
SoftDelete(s, id) == [s EXCEPT ![id].isActive = FALSE]

\* adminAuth: the credential must be present and equal the configured key.
validAdminKey(e) == IF e = "" THEN "admin123" ELSE e
adminAuthLax(k, e) == ~(k # "" /\ k # validAdminKey(e))
adminAuth(k, e) == ~(k = "" \/ k # validAdminKey(e))

\* Url.find({isActive: true}).sort({date: -1}).skip(skip).limit(limit)
ActiveIds(s) == {i \in DOMAIN s : s[i].isActive}

RECURSIVE SortByDateDesc(_, _)
SortByDateDesc(s, S) ==
  IF S = {} THEN <<>>
  ELSE LET m == CHOOSE i \in S : \A j \in S :
                  \/ s[i].date > s[j].date
                  \/ s[i].date = s[j].date /\ i >= j
       IN <<m>> \o SortByDateDesc(s, S \ {m})

DefaultPage == 1
DefaultLimit == 20

Page(q) == IF q.page = 0 THEN DefaultPage ELSE q.page
Limit(q) == IF q.limit = 0 THEN DefaultLimit ELSE q.limit

Min(a, b) == IF a < b THEN a ELSE b

ListUrls(s, q) ==
  LET all == SortByDateDesc(s, ActiveIds(s))
      skip == (Page(q) - 1) * Limit(q)
  IN SubSeq(all, skip + 1, Min(Len(all), skip + Limit(q)))

\* Url.aggregate([{$match: {isActive: true}}, {$group: {$sum: '$clicks'}}])
RECURSIVE SumClicks(_, _)
SumClicks(s, S) ==
  IF S = {} THEN 0
  ELSE LET i == CHOOSE j \in S : TRUE IN s[i].clicks + SumClicks(s, S \ {i})

TotalClicks(s) == SumClicks(s, ActiveIds(s))

\* ------------------------------------------------------------------ first answers

\* POST /api/shorten: Url.findOne({originalUrl}); a hit is answered with the
\* existing record, a miss goes on to draw a code.
ShortenAnswer(s, u) ==
  LET url == FindOneByUrl(s, u) IN
    IF url # Null
    THEN [status |-> 200, touched |-> TRUE, originalUrl |-> s[url].originalUrl,
          shortCode |-> s[url].shortCode, clicks |-> s[url].clicks]
    ELSE Pending

\* GET /:shortcode: Url.findOne({shortCode}); a miss is answered 404, a hit
\* goes on to save the visit.
RedirectAnswer(s, c) ==
  IF FindOneByCode(s, c) = Null
  THEN [status |-> 404, touched |-> TRUE]
  ELSE Pending

\* GET /api/analytics/:shortcode
AnalyticsAnswer(s, c) ==
  LET url == FindOneByCode(s, c) IN
    IF url = Null
    THEN [status |-> 404, touched |-> TRUE]
    ELSE [status |-> 200, touched |-> TRUE, originalUrl |-> s[url].originalUrl,
          shortCode |-> s[url].shortCode, clicks |-> s[url].clicks,
          lastAccessed |-> s[url].lastAccessed]

Unauthorized == [status |-> 401, touched |-> FALSE]

\* GET /api/admin/urls behind adminAuth
AdminUrlsAnswer(s, e, k, q) ==
  IF ~adminAuth(k, e) THEN Unauthorized
  ELSE [status |-> 200, touched |-> TRUE, urls |-> ListUrls(s, q),
        totalUrls |-> Cardinality(ActiveIds(s)),
        totalClicks |-> TotalClicks(s)]

\* DELETE /api/admin/urls/:id behind adminAuth: Url.findById; a miss is
\* answered 404, a hit goes on to save the deactivation.
AdminDeleteAnswer(s, e, k, id) ==
  IF ~adminAuth(k, e) THEN Unauthorized
  ELSE IF FindById(s, id) = Null THEN [status |-> 404, touched |-> TRUE]
  ELSE Pending

\* GET /api/admin/stats behind adminAuth
AdminStatsAnswer(s, e, k) ==
  IF ~adminAuth(k, e) THEN Unauthorized
  ELSE [status |-> 200, touched |-> TRUE,
        totalUrls |-> Cardinality(ActiveIds(s)),
        totalClicks |-> TotalClicks(s)]

\* ------------------------------------------------------------------ handlers

\* Slot requests arrive in slot order.
CanStart(r) == pc[r] = "idle" /\ (IF r = 1 THEN TRUE ELSE pc[r - 1] # "idle")

Start(r, o, a, k, p) ==
  /\ op' = [op EXCEPT ![r] = o]
  /\ arg' = [arg EXCEPT ![r] = a]
  /\ key' = [key EXCEPT ![r] = k]
  /\ pc' = [pc EXCEPT ![r] = p]

\* The handler sends its response and its locals go away.
Respond(r, body) ==
  /\ resp' = [resp EXCEPT ![r] = body]
  /\ pc' = [pc EXCEPT ![r] = "done"]
  /\ doc' = [doc EXCEPT ![r] = NoDoc]
  /\ shortCode' = [shortCode EXCEPT ![r] = ""]

\* The _id of the document slot r constructs; _id 1 is the seeded record.
NewId(r) == r + 1

\* The collection when the server starts: empty, or holding one record that
\* an earlier run created and nobody has visited.
Seeds ==
  {<<>>,
   1 :> NewUrl("https://a.example/page", "aaaaaaa", Now)}

Init ==
  /\ env \in EnvKeys
  /\ store \in Seeds
  /\ op = [r \in Slots |-> "none"]
  /\ arg = [r \in Slots |-> ""]
  /\ key = [r \in Slots |-> ""]
  /\ pc = [r \in Slots |-> "idle"]
  /\ shortCode = [r \in Slots |-> ""]
  /\ doc = [r \in Slots |-> NoDoc]
  /\ resp = [r \in Slots |-> NoResp]

\* POST /api/shorten whose findOne({originalUrl}) misses
ShortenFind(r, u) ==
  /\ CanStart(r)
  /\ ShortenAnswer(store, u) = Pending
  /\ Start(r, "shorten", u, "", "draw")
  /\ UNCHANGED <<env, store, shortCode, doc, resp>>

\* while (!isUnique): shortCode = nanoid(7), and Url.findOne({shortCode})
\* is sent
ShortenDraw(r, c) ==
  /\ pc[r] = "draw"
  /\ shortCode' = [shortCode EXCEPT ![r] = c]
  /\ pc' = [pc EXCEPT ![r] = "probe"]
  /\ UNCHANGED <<env, store, op, arg, key, doc, resp>>

\* The probe's result: a hit draws again; a miss leaves the loop,
\* constructs the document and sends its save.
ShortenProbe(r) ==
  /\ pc[r] = "probe"
  /\ IF FindOneByCode(store, shortCode[r]) = Null
     THEN /\ pc' = [pc EXCEPT ![r] = "save"]
          /\ doc' = [doc EXCEPT ![r] =
                       [id |-> NewId(r)] @@ NewUrl(arg[r], shortCode[r], Now)]
     ELSE /\ pc' = [pc EXCEPT ![r] = "draw"]
          /\ doc' = doc
  /\ UNCHANGED <<env, store, op, arg, key, shortCode, resp>>

\* await url.save() of the new document, then 201; a rejected insert is
\* caught and answered 500.
ShortenSave(r) ==
  /\ pc[r] = "save" /\ op[r] = "shorten"
  /\ IF UniqueIndexOk(store, doc[r].shortCode)
     THEN /\ store' = (doc[r].id :> [f \in DOMAIN doc[r] \ {"id"} |-> doc[r][f]])
                        @@ store
          /\ Respond(r, [status |-> 201, shortCode |-> doc[r].shortCode])
     ELSE /\ store' = store
          /\ Respond(r, [status |-> 500])
  /\ UNCHANGED <<env, op, arg, key>>

\* GET /:shortcode whose findOne({shortCode}) hits: url.clicks++,
\* url.lastAccessed = new Date(), and the save is sent.
RedirectFind(r, c) ==
  /\ CanStart(r)
  /\ RedirectAnswer(store, c) = Pending
  /\ LET url == FindOneByCode(store, c) IN
       doc' = [doc EXCEPT ![r] = Visit([id |-> url] @@ store[url], Now)]
  /\ Start(r, "redirect", c, "", "save")
  /\ UNCHANGED <<env, store, shortCode, resp>>

\* await url.save(), then res.redirect(301, url.originalUrl)
RedirectSave(r) ==
  /\ pc[r] = "save" /\ op[r] = "redirect"
  /\ IF doc[r].id \in DOMAIN store
     THEN /\ store' = SaveVisit(store, doc[r])
          /\ Respond(r, [status |-> 301, location |-> doc[r].originalUrl])
     ELSE /\ store' = store
          /\ Respond(r, [status |-> 500])
  /\ UNCHANGED <<env, op, arg, key>>

\* DELETE /api/admin/urls/:id that passes adminAuth and whose findById
\* hits: url.isActive = false, and the save is sent.
AdminDeleteFind(r, k, id) ==
  /\ CanStart(r)
  /\ AdminDeleteAnswer(store, env, k, id) = Pending
  /\ doc' = [doc EXCEPT ![r] = [id |-> id, isActive |-> FALSE]]
  /\ Start(r, "delete", id, k, "save")
  /\ UNCHANGED <<env, store, shortCode, resp>>

\* await url.save() of the deactivated document, then 200
AdminDeleteSave(r) ==
  /\ pc[r] = "save" /\ op[r] = "delete"
  /\ IF doc[r].id \in DOMAIN store
     THEN /\ store' = SoftDelete(store, doc[r].id)
          /\ Respond(r, [status |-> 200])
     ELSE /\ store' = store
          /\ Respond(r, [status |-> 500])
  /\ UNCHANGED <<env, op, arg, key>>

\* :id values a caller may send: every _id in the collection and one that
\* no document has.
SomeIds == DOMAIN store \cup {Null}

Next ==
  \/ \E r \in Slots, u \in Urls : ShortenFind(r, u)
  \/ \E r \in Slots, c \in Codes : ShortenDraw(r, c)
  \/ \E r \in Slots : ShortenProbe(r)
  \/ \E r \in Slots : ShortenSave(r)
  \/ \E r \in Slots, c \in Codes : RedirectFind(r, c)
  \/ \E r \in Slots : RedirectSave(r)
  \/ \E r \in Slots, k \in Keys, id \in SomeIds : AdminDeleteFind(r, k, id)
  \/ \E r \in Slots : AdminDeleteSave(r)

Spec == Init /\ [][Next]_vars

\* The event loop and the store serve every pending store operation: a
\* handler that awaits one is eventually resumed.
Resume(r) ==
  \/ \E c \in Codes : ShortenDraw(r, c)
  \/ ShortenProbe(r)
  \/ ShortenSave(r)
  \/ RedirectSave(r)
  \/ AdminDeleteSave(r)

FairSpec == Spec /\ \A r \in Slots : WF_vars(Resume(r))

\* ------------------------------------------------------------------ properties

Holds(i, c) == i \in DOMAIN store /\ store[i].shortCode = c
Held(c) == \E i \in DOMAIN store : Holds(i, c)

Answered(r, o, st) == op[r] = o /\ pc[r] = "done" /\ resp[r].status = st

\* The shortCode every successful POST /api/shorten for u has been or would
\* now be answered with.
CodesAnswered(u) ==
  {resp[r].shortCode : r \in {x \in Slots : Answered(x, "shorten", 201) /\ arg[x] = u}}
    \cup (IF ShortenAnswer(store, u) = Pending THEN {}
          ELSE {ShortenAnswer(store, u).shortCode})

\* C1: all successful shortening responses for one originalUrl carry the
\* same shortCode, and at most one record holds that originalUrl.
C1_IdempotentPerUrl ==
  /\ \A u \in Urls : Cardinality(CodesAnswered(u)) <= 1
  /\ \A i, j \in DOMAIN store :
       store[i].originalUrl = store[j].originalUrl => i = j

\* C2: no two records, active or not, share a shortCode.
C2_UniqueShortCode ==
  \A i, j \in DOMAIN store : store[i].shortCode = store[j].shortCode => i = j

\* Two requests for different URLs drew the same code and both passed the
\* probe; the first insert committed and the second was rejected.
C2_Witness ==
  \E r1, r2 \in Slots :
    /\ Answered(r1, "shorten", 201) /\ Answered(r2, "shorten", 500)
    /\ arg[r1] # arg[r2]
    /\ Held(resp[r1].shortCode)

\* The redirects to record i that have been answered 301, and those still
\* between their findOne and their save.
Redirected(i) ==
  {r \in Slots : Answered(r, "redirect", 301) /\ Holds(i, arg[r])}
Redirecting(i) ==
  {r \in Slots : op[r] = "redirect" /\ pc[r] = "save" /\ doc[r].id = i}

\* C3: once N redirects to a record have all completed with 301, its clicks
\* is the value it had before them (0 for a fresh record) plus N.
C3_ClicksCountRedirects ==
  \A i \in DOMAIN store :
    Redirecting(i) = {} => store[i].clicks = Cardinality(Redirected(i))

\* C4: GET /:shortcode on a code that no record holds is answered 404 in
\* the handler's first continuation, and no handler that goes on to write
\* is one for a code that no record holds.
C4_UnknownCodeIs404 ==
  /\ \A c \in Codes : ~Held(c) => RedirectAnswer(store, c).status = 404
  /\ \A r \in Slots : op[r] = "redirect" => Held(arg[r])

\* The collection holds visited records and a code nobody holds is looked up.
C4_Witness ==
  /\ \E i \in DOMAIN store : store[i].clicks > 0
  /\ \E c \in Codes : ~Held(c) /\ RedirectAnswer(store, c).status = 404

\* C5: after DELETE /api/admin/urls/:id has been answered 200 for a record,
\* no admin listing contains the record and the analytics lookup of its
\* code is answered 404.
C5_DeletedIsHidden ==
  \A r \in Slots : Answered(r, "delete", 200) =>
    /\ \A q \in ListQueries :
         LET a == AdminUrlsAnswer(store, env, key[r], q)
         IN \A n \in 1..Len(a.urls) : a.urls[n] # arg[r]
    /\ AnalyticsAnswer(store, store[arg[r]].shortCode).status = 404

BadKey(k) == k = "" \/ k # validAdminKey(env)

\* C6: an admin request whose credential is absent or is not the configured
\* secret is answered 401 before any store access, and no DELETE handler
\* that goes on to write isActive carries such a credential.
C6_AdminGate ==
  /\ \A k \in Keys : BadKey(k) =>
       /\ \A q \in ListQueries : AdminUrlsAnswer(store, env, k, q) = Unauthorized
       /\ \A id \in SomeIds : AdminDeleteAnswer(store, env, k, id) = Unauthorized
       /\ AdminStatsAnswer(store, env, k) = Unauthorized
  /\ \A r \in Slots : op[r] = "delete" => ~BadKey(key[r])

\* An active record that a DELETE with a bad credential names, with the
\* secret configured and a soft delete of another request under way or done.
C6_Witness ==
  /\ env # ""
  /\ \E i \in DOMAIN store :
       /\ store[i].isActive
       /\ AdminDeleteAnswer(store, env, "admin123", i) = Unauthorized
       /\ AdminDeleteAnswer(store, env, "", i) = Unauthorized
  /\ \E r \in Slots : op[r] = "delete"

\* C7: no step takes the clicks of a record to a smaller value.
C7_ClicksMonotonic ==
  [][\A i \in DOMAIN store : i \in DOMAIN store' => store'[i].clicks >= store[i].clicks]_vars

\* C8: a record keeps its shortCode and its originalUrl in every later
\* state, and is never removed.
C8_CodeReservedForever ==
  [][\A i \in DOMAIN store :
       /\ i \in DOMAIN store'
       /\ store'[i].shortCode = store[i].shortCode
       /\ store'[i].originalUrl = store[i].originalUrl]_vars

\* A record that has been visited and soft-deleted, beside a live one.
C8_Witness ==
  /\ \E i \in DOMAIN store : ~store[i].isActive /\ store[i].clicks > 0
  /\ \E i \in DOMAIN store : store[i].isActive

\* C9: every POST /api/shorten that passed validation and missed its
\* findOne({originalUrl}) is eventually answered.
C9_ShortenAnswers ==
  \A r \in Slots : (op[r] = "shorten") ~> (pc[r] = "done")

\* C10: lastAccessed is null exactly when clicks is 0.
C10_NullIffUnvisited ==
  \A i \in DOMAIN store : (store[i].lastAccessed = Null) <=> (store[i].clicks = 0)

\* A visited record that was then soft-deleted, beside an unvisited one.
C10_Witness ==
  /\ \E i \in DOMAIN store :
       store[i].clicks > 0 /\ store[i].lastAccessed # Null /\ ~store[i].isActive
  /\ \E i \in DOMAIN store : store[i].clicks = 0 /\ store[i].lastAccessed = Null

====
